---- MODULE Spec2Model ----
(***************************************************************************)
(* A model of the brazilian-utils library: validators, formatters and      *)
(* generators of Brazilian identifiers, the state/city lookup tables and   *)
(* the text capitalizer.                                                   *)
(*                                                                         *)
(* A JavaScript string is a sequence of one-character strings; the index i *)
(* of the source (0-based) is the index i + 1 of the sequence.  Every      *)
(* library call is one action: it draws its argument from a bounded set,   *)
(* computes the result as the source computes it and records the call in   *)
(* the variables op, arg, opt, out and ok.  The only data that outlives a  *)
(* call are the city arrays of CITIES_DATA.                                *)
(***************************************************************************)
EXTENDS Integers, Sequences, FiniteSets, TLC

VARIABLES
    op,           \* the operation called last ("none" before the first call)
    arg,          \* its argument
    opt,          \* its options (pad flag, state argument, word lists)
    out,          \* its result when the result is a string or a list
    ok,           \* its result when the result is a boolean
    CITIES_DATA,  \* state code -> the city array held by the table
    ret           \* which array the last getCities call handed to its caller

vars == <<op, arg, opt, out, ok, CITIES_DATA, ret>>

(***************************************************************************)
(* Bounds of the model                                                     *)
(***************************************************************************)
\* A drawn digit string is a repeated digit followed by MaxFreeDigits free digits.
MaxFreeDigits == 1

(***************************************************************************)
(* JavaScript primitives                                                   *)
(***************************************************************************)
DIGITS == <<"0", "1", "2", "3", "4", "5", "6", "7", "8", "9">>

Digit == {DIGITS[i] : i \in 1..10}

IsDigit(c) == c \in Digit

\* parseInt(digit, 10) and the unary plus on a one-digit string
parseInt(c) == (CHOOSE i \in 1..10 : DIGITS[i] = c) - 1

\* String(n) and n.toString() for a non-negative integer
RECURSIVE toString(_)
toString(n) == IF n < 10 THEN <<DIGITS[n + 1]>> ELSE toString(n \div 10) \o <<DIGITS[(n % 10) + 1]>>

\* the number a digit string denotes (Number(s), +s on a digit string)
RECURSIVE Number(_)
Number(s) == IF s = <<>> THEN 0 ELSE 10 * Number(SubSeq(s, 1, Len(s) - 1)) + parseInt(s[Len(s)])

Min(a, b) == IF a < b THEN a ELSE b

\* s.slice(from, to) and s.substring(from, to) for 0 <= from
slice(s, from, to) == SubSeq(s, from + 1, Min(to, Len(s)))

\* s.padStart(n, c)
padStart(s, n, c) == [i \in 1..(IF Len(s) < n THEN n - Len(s) ELSE 0) |-> c] \o s

\* the string of n copies of c
Repeat(c, n) == [i \in 1..n |-> c]

\* the strings of length n over the set of characters S
RECURSIVE Strings(_, _)
Strings(S, n) == IF n = 0 THEN {<<>>} ELSE {<<c>> \o s : c \in S, s \in Strings(S, n - 1)}

(***************************************************************************)
(* helpers (the module '../../helpers' the utilities import)               *)
(***************************************************************************)
\* strips every non-digit character
onlyNumbers(input) == SelectSeq(input, IsDigit)

isLastChar(index, input) == index = Len(input) - 1

\* weighted sum of the digits of base; the weight of digit i is weight - i
RECURSIVE generateChecksumFrom(_, _)
generateChecksumFrom(base, weight) ==
    IF base = <<>> THEN 0
    ELSE parseInt(base[1]) * weight + generateChecksumFrom(Tail(base), weight - 1)

\* weighted sum of the digits of base; the weight of digit i is weights[i]
RECURSIVE generateChecksumWeights(_, _)
generateChecksumWeights(base, weights) ==
    IF base = <<>> THEN 0
    ELSE parseInt(base[1]) * weights[1] + generateChecksumWeights(Tail(base), Tail(weights))

\* the digit strings generateRandomNumber(length) may return, within the bound
generateRandomNumber(length) ==
    IF length <= MaxFreeDigits THEN Strings(Digit, length)
    ELSE {Repeat(d, length - MaxFreeDigits) \o f : d \in Digit, f \in Strings(Digit, MaxFreeDigits)}

(***************************************************************************)
(* common/states: the static state table (a sample of three states)        *)
(***************************************************************************)
STATES == <<"DF", "RS", "SP">>

STATES_DATA ==
    [DF |-> [code |-> 1, name |-> "Distrito Federal", areaCodes |-> <<61>>],
     RS |-> [code |-> 0, name |-> "Rio Grande do Sul", areaCodes |-> <<51, 53, 54, 55>>],
     SP |-> [code |-> 8, name |-> "Sao Paulo", areaCodes |-> <<11, 12, 13, 14, 15, 16, 17, 18, 19>>]]

Range(s) == {s[i] : i \in 1..Len(s)}

\* the optional state argument of cpf.generate: absent, a known code, an unknown value
NoState == "undefined"

(***************************************************************************)
(* A regular expression of the shape the format checks use: a sequence of  *)
(* items, each a digit (\d) or an optional literal character (c?)          *)
(***************************************************************************)
D == [digit |-> TRUE, lit |-> ""]

Opt(c) == [digit |-> FALSE, lit |-> c]

\* ^pat$ tested on s, from character i of s and item j of pat
RECURSIVE Matches(_, _, _, _)
Matches(s, i, pat, j) ==
    IF j > Len(pat) THEN i > Len(s)
    ELSE IF pat[j].digit
         THEN i <= Len(s) /\ IsDigit(s[i]) /\ Matches(s, i + 1, pat, j + 1)
         ELSE \/ i <= Len(s) /\ s[i] = pat[j].lit /\ Matches(s, i + 1, pat, j + 1)
              \/ Matches(s, i, pat, j + 1)

\* the reduce of every format function: each digit is appended to the
\* accumulator, followed by its separator unless isLastChar(index, lastOf)
RECURSIVE reduceFormat(_, _, _, _)
reduceFormat(chars, index, lastOf, sep) ==
    IF index >= Len(chars) THEN <<>>
    ELSE <<chars[index + 1]>>
         \o (IF ~isLastChar(index, lastOf) /\ index \in DOMAIN sep THEN sep[index] ELSE <<>>)
         \o reduceFormat(chars, index + 1, lastOf, sep)

(***************************************************************************)
(* utilities/cpf                                                           *)
(***************************************************************************)
cpf_LENGTH == 11

cpf_DOT_INDEXES == {2, 5}

cpf_HYPHEN_INDEXES == {8}

cpf_RESERVED_NUMBERS == {Repeat(d, 11) : d \in Digit}

cpf_CHECK_DIGITS_INDEXES == <<9, 10>>

\* the separator the reduce callback appends after index i
cpf_separators ==
    [i \in cpf_DOT_INDEXES \cup cpf_HYPHEN_INDEXES |->
        IF i \in cpf_DOT_INDEXES THEN <<".">> ELSE <<"-">>]

\* format without the slice to the fixed length
cpf_format_noSlice(cpf, pad) ==
    LET digits0 == onlyNumbers(cpf)
        digits == IF pad THEN padStart(digits0, cpf_LENGTH, "0") ELSE digits0
    IN reduceFormat(digits, 0, digits, cpf_separators)

cpf_format(cpf, pad) ==
    LET digits0 == onlyNumbers(cpf)
        digits == IF pad THEN padStart(digits0, cpf_LENGTH, "0") ELSE digits0
    IN reduceFormat(slice(digits, 0, cpf_LENGTH), 0, digits, cpf_separators)

\* the mod-11 check digit of both generators and checksum validators
checkDigit(mod) == IF mod < 2 THEN 0 ELSE 11 - mod

\* the results of generate(state): one per draw of the random digits
cpf_generate(state) ==
    LET stateCodes == IF state # NoState /\ state \in Range(STATES)
                      THEN {toString(STATES_DATA[state].code)}
                      ELSE generateRandomNumber(1)
    IN {LET baseCPF == r \o stateCode
            firstCheckDigit == toString(checkDigit(generateChecksumFrom(baseCPF, 10) % 11))
            secondCheckDigit ==
                toString(checkDigit(generateChecksumFrom(baseCPF \o firstCheckDigit, 11) % 11))
        IN baseCPF \o firstCheckDigit \o secondCheckDigit :
        r \in generateRandomNumber(cpf_LENGTH - 3), stateCode \in stateCodes}

cpf_isValidFormat(cpf) ==
    Matches(cpf, 1, <<D, D, D, Opt("."), D, D, D, Opt("."), D, D, D, Opt("-"), D, D>>, 1)

\* isReservedNumber with an empty list of reserved numbers
cpf_isReservedNumber_none(cpf) == cpf \in {}

cpf_isReservedNumber(cpf) == cpf \in cpf_RESERVED_NUMBERS

\* isValidChecksum that looks at the first check digit only
cpf_isValidChecksum_firstOnly(cpf) ==
    LET i == cpf_CHECK_DIGITS_INDEXES[1]
        mod == generateChecksumFrom(slice(cpf, 0, i), i + 1) % 11
    IN i < Len(cpf) /\ <<cpf[i + 1]>> = toString(checkDigit(mod))

cpf_isValidChecksum(cpf) ==
    \A k \in 1..Len(cpf_CHECK_DIGITS_INDEXES) :
        LET i == cpf_CHECK_DIGITS_INDEXES[k]
            mod == generateChecksumFrom(slice(cpf, 0, i), i + 1) % 11
        IN i < Len(cpf) /\ <<cpf[i + 1]>> = toString(checkDigit(mod))

\* isValid that accepts the bare digits only, with no separator
cpf_isValid_bareDigits(cpf) ==
    IF cpf = <<>> THEN FALSE
    ELSE cpf = onlyNumbers(cpf) /\ Len(cpf) = cpf_LENGTH
         /\ ~cpf_isReservedNumber(cpf) /\ cpf_isValidChecksum(cpf)

\* a string argument: the guard !cpf rejects the empty string
cpf_isValid(cpf) ==
    IF cpf = <<>> THEN FALSE
    ELSE LET digits == onlyNumbers(cpf)
         IN cpf_isValidFormat(cpf) /\ ~cpf_isReservedNumber(digits) /\ cpf_isValidChecksum(digits)

(***************************************************************************)
(* utilities/cnpj                                                          *)
(***************************************************************************)
cnpj_LENGTH == 14

cnpj_DOT_INDEXES == {1, 4}

cnpj_SLASH_INDEXES == {7}

cnpj_HYPHEN_INDEXES == {11}

cnpj_RESERVED_NUMBERS == {Repeat(d, 14) : d \in Digit}

cnpj_CHECK_DIGITS_INDEXES == <<12, 13>>

FIRST_CHECK_DIGIT_WEIGHTS == <<5, 4, 3, 2, 9, 8, 7, 6, 5, 4, 3, 2>>

SECOND_CHECK_DIGIT_WEIGHTS == <<6>> \o FIRST_CHECK_DIGIT_WEIGHTS

cnpj_separators ==
    [i \in cnpj_DOT_INDEXES \cup cnpj_SLASH_INDEXES \cup cnpj_HYPHEN_INDEXES |->
        IF i \in cnpj_DOT_INDEXES THEN <<".">>
        ELSE IF i \in cnpj_SLASH_INDEXES THEN <<"/">> ELSE <<"-">>]

cnpj_format(cnpj, pad) ==
    LET digits0 == onlyNumbers(cnpj)
        digits == IF pad THEN padStart(digits0, cnpj_LENGTH, "0") ELSE digits0
    IN reduceFormat(slice(digits, 0, cnpj_LENGTH), 0, digits, cnpj_separators)

\* the results of generate(): one per draw of the random digits
cnpj_generate ==
    {LET firstCheckDigit ==
             toString(checkDigit(generateChecksumWeights(baseCNPJ, FIRST_CHECK_DIGIT_WEIGHTS) % 11))
         secondCheckDigit ==
             toString(checkDigit(generateChecksumWeights(baseCNPJ \o firstCheckDigit,
                                                         SECOND_CHECK_DIGIT_WEIGHTS) % 11))
     IN baseCNPJ \o firstCheckDigit \o secondCheckDigit :
     baseCNPJ \in generateRandomNumber(cnpj_LENGTH - 2)}

cnpj_isValidFormat(cnpj) ==
    Matches(cnpj, 1, <<D, D, Opt("."), D, D, D, Opt("."), D, D, D, Opt("/"), D, D, D, D,
                       Opt("-"), D, D>>, 1)

cnpj_isReservedNumber(cpf) == cpf \in cnpj_RESERVED_NUMBERS

\* the weights array gets 6 unshifted when the last check digit index is reached
cnpj_isValidChecksum(cnpj) ==
    \A k \in 1..Len(cnpj_CHECK_DIGITS_INDEXES) :
        LET i == cnpj_CHECK_DIGITS_INDEXES[k]
            weights == IF i = cnpj_CHECK_DIGITS_INDEXES[Len(cnpj_CHECK_DIGITS_INDEXES)]
                       THEN <<6>> \o FIRST_CHECK_DIGIT_WEIGHTS
                       ELSE FIRST_CHECK_DIGIT_WEIGHTS
            mod == generateChecksumWeights(slice(cnpj, 0, i), weights) % 11
        IN i < Len(cnpj) /\ <<cnpj[i + 1]>> = toString(checkDigit(mod))

cnpj_isValid(cnpj) ==
    IF cnpj = <<>> THEN FALSE
    ELSE LET numbers == onlyNumbers(cnpj)
         IN cnpj_isValidFormat(cnpj) /\ ~cnpj_isReservedNumber(numbers)
            /\ cnpj_isValidChecksum(numbers)

(***************************************************************************)
(* utilities/pis                                                           *)
(***************************************************************************)
pis_LENGTH == 11

pis_WEIGHTS == <<3, 2, 9, 8, 7, 6, 5, 4, 3, 2>>

pis_RESERVED_NUMBERS == {Repeat(d, 11) : d \in Digit}

pis_isValidLength(pis) == Len(pis) = pis_LENGTH

pis_isReservedNumber(pis) == pis \in pis_RESERVED_NUMBERS

\* /^[0-9]+$/
hasOnlyNumbers(pis) == pis # <<>> /\ \A i \in 1..Len(pis) : IsDigit(pis[i])

\* removes the characters of the class [ ().,*-]
removeSeparators(pis) == SelectSeq(pis, LAMBDA c : c \notin {" ", "(", ")", ".", ",", "*", "-"})

\* isValid without the case of a calculated digit 11 and a verifying digit 0
pis_isValid_noEleven(pis) ==
    IF pis = <<>> THEN FALSE
    ELSE LET numeric == removeSeparators(pis)
         IN IF ~pis_isValidLength(numeric) \/ pis_isReservedNumber(numeric)
               \/ ~hasOnlyNumbers(numeric)
            THEN FALSE
            ELSE LET weightedChecksum ==
                         generateChecksumWeights(slice(numeric, 0, Len(numeric) - 1), pis_WEIGHTS)
                     verifyingDigit == parseInt(numeric[Len(numeric)])
                     calculatedDigit == 11 - (weightedChecksum % 11)
                 IN \/ calculatedDigit = verifyingDigit
                    \/ (calculatedDigit = 10 /\ verifyingDigit = 0)

pis_isValid(pis) ==
    IF pis = <<>> THEN FALSE
    ELSE LET numeric == removeSeparators(pis)
         IN IF ~pis_isValidLength(numeric) \/ pis_isReservedNumber(numeric)
               \/ ~hasOnlyNumbers(numeric)
            THEN FALSE
            ELSE LET weightedChecksum ==
                         generateChecksumWeights(slice(numeric, 0, Len(numeric) - 1), pis_WEIGHTS)
                     verifyingDigit == parseInt(numeric[Len(numeric)])
                     calculatedDigit == 11 - (weightedChecksum % 11)
                 IN \/ calculatedDigit = verifyingDigit
                    \/ (calculatedDigit = 10 /\ verifyingDigit = 0)
                    \/ (calculatedDigit = 11 /\ verifyingDigit = 0)

(***************************************************************************)
(* utilities/boleto                                                        *)
(***************************************************************************)
PARTIALS ==
    <<[end |-> 9, start |-> 0, index |-> 9],
      [end |-> 20, start |-> 10, index |-> 20],
      [end |-> 31, start |-> 21, index |-> 31]>>

boleto_DOT_INDEXES == {4, 14, 25}

boleto_SPACE_INDEXES == {9, 20, 31, 32}

boleto_LENGTH == 47

CHECK_DIGIT_POSITION == 4

MOD_11_WEIGHTS == [end |-> 9, initial |-> 2]

MOD_10_WEIGHTS == <<2, 1>>

DIGITABLE_LINE_TO_BOLETO_CONVERT_POSITIONS ==
    <<[end |-> 4, start |-> 0],
      [end |-> 47, start |-> 32],
      [end |-> 9, start |-> 4],
      [end |-> 20, start |-> 10],
      [end |-> 31, start |-> 21]>>

boleto_isValidLength(digitableLine) == Len(digitableLine) = boleto_LENGTH

\* the sum of mod10 over the digits from the right; index counts from the right
RECURSIVE mod10Sum(_, _)
mod10Sum(partial, index) ==
    IF partial = <<>> THEN 0
    ELSE LET result == parseInt(partial[Len(partial)]) * MOD_10_WEIGHTS[(index % 2) + 1]
         IN (IF result > 9 THEN 1 + (result % 10) ELSE result)
            + mod10Sum(SubSeq(partial, 1, Len(partial) - 1), index + 1)

mod10(partial) ==
    LET mod == mod10Sum(partial, 0) % 10
    IN IF mod > 0 THEN 10 - mod ELSE 0

\* the sum of mod11 over the digits from the right, the weight cycling initial..end
RECURSIVE mod11Sum(_, _)
mod11Sum(value, weight) ==
    IF value = <<>> THEN 0
    ELSE parseInt(value[Len(value)]) * weight
         + mod11Sum(SubSeq(value, 1, Len(value) - 1),
                    IF weight < MOD_11_WEIGHTS.end THEN weight + 1 ELSE MOD_11_WEIGHTS.initial)

mod11(value) ==
    LET mod == mod11Sum(value, MOD_11_WEIGHTS.initial) % 11
    IN IF mod = 0 \/ mod = 1 THEN 1 ELSE 11 - mod

\* isValidPartials that looks at the first partial only
isValidPartials_firstOnly(digitableLine) ==
    LET p == PARTIALS[1]
    IN parseInt(digitableLine[p.index + 1]) = mod10(slice(digitableLine, p.start, p.end))

isValidPartials(digitableLine) ==
    \A k \in 1..Len(PARTIALS) :
        LET p == PARTIALS[k]
        IN parseInt(digitableLine[p.index + 1]) = mod10(slice(digitableLine, p.start, p.end))

RECURSIVE boleto_parseFrom(_, _)
boleto_parseFrom(digitableLine, k) ==
    IF k > Len(DIGITABLE_LINE_TO_BOLETO_CONVERT_POSITIONS) THEN <<>>
    ELSE LET pos == DIGITABLE_LINE_TO_BOLETO_CONVERT_POSITIONS[k]
         IN slice(digitableLine, pos.start, pos.end) \o boleto_parseFrom(digitableLine, k + 1)

boleto_parse(digitableLine) == boleto_parseFrom(digitableLine, 1)

isValidCheckDigit(parsedDigitableLine) ==
    LET mod == mod11(slice(parsedDigitableLine, 0, CHECK_DIGIT_POSITION)
                     \o slice(parsedDigitableLine, CHECK_DIGIT_POSITION + 1,
                              Len(parsedDigitableLine)))
    IN parseInt(parsedDigitableLine[CHECK_DIGIT_POSITION + 1]) = mod

boleto_isValid(digitableLine) ==
    IF digitableLine = <<>> THEN FALSE
    ELSE LET digits == onlyNumbers(digitableLine)
         IN IF ~boleto_isValidLength(digits) THEN FALSE
            ELSE IF ~isValidPartials(digits) THEN FALSE
            ELSE isValidCheckDigit(boleto_parse(digits))

boleto_separators ==
    [i \in boleto_DOT_INDEXES \cup boleto_SPACE_INDEXES |->
        IF i \in boleto_DOT_INDEXES THEN <<".">> ELSE <<" ">>]

boleto_format(boleto) ==
    LET digits == onlyNumbers(boleto)
    IN reduceFormat(slice(digits, 0, boleto_LENGTH), 0, digits, boleto_separators)

(***************************************************************************)
(* utilities/processo-juridico                                             *)
(***************************************************************************)
processo_LENGTH == 20

processo_DOT_INDEXES == {8, 12, 15}

processo_HYPHEN_INDEXES == {6}

CHECK_DIGIT_START_POSITION == 7

CHECK_DIGIT_LENGTH == 2

MOD_97_10_QUOCIENT == 97

MOD_97_10_SUM == 98

processo_separators ==
    [i \in processo_DOT_INDEXES \cup processo_HYPHEN_INDEXES |->
        IF i \in processo_DOT_INDEXES THEN <<".">> ELSE <<"-">>]

\* isLastChar is given the argument itself, not its digits
processo_format(processoJuridico) ==
    LET digits == onlyNumbers(processoJuridico)
    IN reduceFormat(slice(digits, 0, processo_LENGTH), 0, processoJuridico, processo_separators)

\* Every number verifyDigit computes stays under 2^53, so the source's floating
\* point arithmetic is exact; the numbers of 11 digits and the product
\* firstRemainder * 1_000_000_000 exceed the integers of the model checker, so
\* their remainders are computed digit by digit and factor by factor.
RECURSIVE NumberMod(_, _)
NumberMod(s, m) ==
    IF s = <<>> THEN 0
    ELSE (10 * NumberMod(SubSeq(s, 1, Len(s) - 1), m) + parseInt(s[Len(s)])) % m

\* (a * b + c) % m
TimesPlusMod(a, b, c, m) == ((((a % m) * (b % m)) % m) + (c % m)) % m

\* the verifier with the first remainder shifted by eight places, not nine
verifierOf_shortShift(digits) ==
    LET firstRemainder == NumberMod(slice(digits, 0, 11), MOD_97_10_QUOCIENT)
        digits12to18 == Number(slice(digits, 11, Len(digits)))
        secondRemainder ==
            TimesPlusMod(firstRemainder, 100000000, digits12to18 * 100, MOD_97_10_QUOCIENT)
    IN MOD_97_10_SUM - secondRemainder

\* the verifier of the 18 digits left once the check digits are spliced out
verifierOf(digits) ==
    LET firstRemainder == NumberMod(slice(digits, 0, 11), MOD_97_10_QUOCIENT)
        digits12to18 == Number(slice(digits, 11, Len(digits)))
        secondRemainder ==
            TimesPlusMod(firstRemainder, 1000000000, digits12to18 * 100, MOD_97_10_QUOCIENT)
    IN MOD_97_10_SUM - secondRemainder

verifyDigit(processo) ==
    LET verificationDigits ==
            slice(processo, CHECK_DIGIT_START_POSITION,
                  CHECK_DIGIT_START_POSITION + CHECK_DIGIT_LENGTH)
        digits == slice(processo, 0, CHECK_DIGIT_START_POSITION)
                  \o slice(processo, CHECK_DIGIT_START_POSITION + CHECK_DIGIT_LENGTH,
                           Len(processo))
    IN verifierOf(digits) = Number(verificationDigits)

processo_isValid(processoJuridico) ==
    IF processoJuridico = <<>> THEN FALSE
    ELSE LET digits == onlyNumbers(processoJuridico)
         IN IF Len(digits) # processo_LENGTH THEN FALSE ELSE verifyDigit(digits)

(***************************************************************************)
(* utilities/cep                                                           *)
(***************************************************************************)
cep_LENGTH == 8

cep_HYPHEN_INDEXES == {4}

cep_isValidLength(cep) == Len(cep) = cep_LENGTH

cep_separators == [i \in cep_HYPHEN_INDEXES |-> <<"-">>]

cep_format(cep) ==
    LET digits == onlyNumbers(cep)
    IN reduceFormat(slice(digits, 0, cep_LENGTH), 0, digits, cep_separators)

cep_isValid(cep) ==
    IF cep = <<>> THEN FALSE ELSE cep_isValidLength(onlyNumbers(cep))

(***************************************************************************)
(* utilities/phone                                                         *)
(***************************************************************************)
RECURSIVE concatAreaCodes(_)
concatAreaCodes(k) ==
    IF k > Len(STATES) THEN <<>> ELSE STATES_DATA[STATES[k]].areaCodes \o concatAreaCodes(k + 1)

VALID_AREA_CODES == concatAreaCodes(1)

PHONE_MIN_LENGTH == 10

PHONE_MAX_LENGTH == 11

MOBILE_VALID_FIRST_NUMBERS == {6, 7, 8, 9}

LANDLINE_VALID_FIRST_NUMBERS == {2, 3, 4, 5}

\* Number('') is 0 and Number of a digit string is its value
isValidDDD(phone) == Number(slice(phone, 0, 2)) \in Range(VALID_AREA_CODES)

isValidMobilePhoneLength(phone) == Len(phone) = PHONE_MAX_LENGTH

isValidLandlinePhoneLength(phone) == Len(phone) >= PHONE_MIN_LENGTH /\ Len(phone) < PHONE_MAX_LENGTH

phone_isValidLength(phone) == isValidLandlinePhoneLength(phone) \/ isValidMobilePhoneLength(phone)

\* Number(phone.charAt(2)): charAt gives '' past the end, and Number('') is 0
charAt2Number(phone) == IF Len(phone) > 2 THEN parseInt(phone[3]) ELSE 0

isValidMobilePhoneFirstNumber(phone) == charAt2Number(phone) \in MOBILE_VALID_FIRST_NUMBERS

isValidLandlinePhoneFirstNumber(phone) == charAt2Number(phone) \in LANDLINE_VALID_FIRST_NUMBERS

\* isValidFirstNumber that consults both sets whatever the length
isValidFirstNumber_eitherSet(phone) ==
    isValidLandlinePhoneFirstNumber(phone) \/ isValidMobilePhoneFirstNumber(phone)

isValidFirstNumber(phone) ==
    IF Len(phone) = PHONE_MIN_LENGTH
    THEN isValidLandlinePhoneFirstNumber(phone)
    ELSE isValidMobilePhoneFirstNumber(phone)

\* a string argument: isValidDigits is false exactly for the empty string
parsePhoneDigits(phone) == [isValidDigits |-> phone # <<>>, digits |-> onlyNumbers(phone)]

\* isValidMobilePhone without the test of the length
isValidMobilePhone_anyLength(phone) ==
    LET p == parsePhoneDigits(phone)
    IN IF ~p.isValidDigits THEN FALSE
       ELSE isValidMobilePhoneFirstNumber(p.digits) /\ isValidDDD(p.digits)

isValidMobilePhone(phone) ==
    LET p == parsePhoneDigits(phone)
    IN IF ~p.isValidDigits THEN FALSE
       ELSE isValidMobilePhoneLength(p.digits) /\ isValidMobilePhoneFirstNumber(p.digits)
            /\ isValidDDD(p.digits)

isValidLandlinePhone(phone) ==
    LET p == parsePhoneDigits(phone)
    IN IF ~p.isValidDigits THEN FALSE
       ELSE isValidLandlinePhoneLength(p.digits) /\ isValidLandlinePhoneFirstNumber(p.digits)
            /\ isValidDDD(p.digits)

phone_isValid(phone) ==
    LET p == parsePhoneDigits(phone)
    IN IF ~p.isValidDigits THEN FALSE
       ELSE phone_isValidLength(p.digits) /\ isValidFirstNumber(p.digits) /\ isValidDDD(p.digits)

(***************************************************************************)
(* common/cities and utilities/states, utilities/cities                    *)
(***************************************************************************)
\* the cities the sample table holds for each state
CITIES == [DF |-> {"Brasilia"},
           RS |-> {"Agudo", "Bage", "Canoas"},
           SP |-> {"Adamantina", "Campinas", "Santos"}]

\* the order localeCompare puts the names of the tables in
COLLATION ==
    <<"Adamantina", "Agudo", "Bage", "Brasilia", "Campinas", "Canoas", "Distrito Federal",
      "Rio Grande do Sul", "Santos", "Sao Paulo">>

Rank(name) == CHOOSE i \in 1..Len(COLLATION) : COLLATION[i] = name

\* a.localeCompare(b): negative, zero or positive
localeCompare(a, b) == Rank(a) - Rank(b)

\* the comparators, as functions of the two elements compared
sortAlphabetically == [cityA \in Range(COLLATION), cityB \in Range(COLLATION) |->
                          localeCompare(cityA, cityB)]

StateRecords == {[code |-> c, name |-> STATES_DATA[c].name] : c \in DOMAIN STATES_DATA}

stateNameComparer == [stateA \in StateRecords, stateB \in StateRecords |->
                         localeCompare(stateA.name, stateB.name)]

\* Array.prototype.sort with a comparator: e is put after the last element of
\* the sorted array that does not compare greater (the sort is stable)
RECURSIVE InsertSorted(_, _, _)
InsertSorted(e, sorted, cmp) ==
    IF sorted = <<>> THEN <<e>>
    ELSE IF cmp[sorted[Len(sorted)], e] <= 0 THEN Append(sorted, e)
    ELSE Append(InsertSorted(e, SubSeq(sorted, 1, Len(sorted) - 1), cmp), sorted[Len(sorted)])

RECURSIVE SortFrom(_, _, _)
SortFrom(array, k, cmp) ==
    IF k = 0 THEN <<>> ELSE InsertSorted(array[k], SortFrom(array, k - 1, cmp), cmp)

sort(array, cmp) == SortFrom(array, Len(array), cmp)

sortByStateName(states) == sort(states, stateNameComparer)

\* a new array on every call: STATES.map(...) sorted in place
getStates ==
    sortByStateName([k \in 1..Len(STATES) |->
                        [code |-> STATES[k], name |-> STATES_DATA[STATES[k]].name]])

\* an optional argument: absent (undefined) or a string
Undefined == [given |-> FALSE, val |-> ""]

Given(string) == [given |-> TRUE, val |-> string]

\* if (state): an absent argument and the empty string are falsy
Truthy(a) == a.given /\ a.val # ""

\* states.find(({ name, code }) => name === state || code === state)
find(states, state) ==
    LET hits == {k \in 1..Len(states) : states[k].name = state \/ states[k].code = state}
    IN IF hits = {} THEN Undefined
       ELSE Given(states[CHOOSE k \in hits : \A j \in hits : k <= j].code)

\* Object.values(table).reduce((acc, city) => acc.concat(city), [])
RECURSIVE concatCities(_, _)
concatCities(table, k) ==
    IF k > Len(STATES) THEN <<>> ELSE table[STATES[k]] \o concatCities(table, k + 1)

\* getCities(state) on the table: the array returned, whose array it is ("new"
\* for an array made by the call, a state code for the array the table holds
\* for that state) and the table after the call, sorted in place by sort
getCities(state, table) ==
    IF Truthy(state)
    THEN LET foundState == find(getStates, state.val)
         IN IF ~foundState.given
            THEN [array |-> <<>>, owner |-> "new", table |-> table]
            ELSE LET sorted == sort(table[foundState.val], sortAlphabetically)
                 IN [array |-> sorted, owner |-> foundState.val,
                     table |-> [table EXCEPT ![foundState.val] = sorted]]
    ELSE [array |-> sort(concatCities(table, 1), sortAlphabetically), owner |-> "new",
          table |-> table]

(***************************************************************************)
(* capitalize                                                              *)
(***************************************************************************)
LOWER == <<"a", "b", "c", "d", "e", "f", "g", "h", "i", "j", "k", "l", "m",
           "n", "o", "p", "q", "r", "s", "t", "u", "v", "w", "x", "y", "z">>

UPPER == <<"A", "B", "C", "D", "E", "F", "G", "H", "I", "J", "K", "L", "M",
           "N", "O", "P", "Q", "R", "S", "T", "U", "V", "W", "X", "Y", "Z">>

\* toLocaleLowerCase and toLocaleUpperCase on the unaccented letters
toLocaleLowerCase(word) ==
    [i \in 1..Len(word) |->
        IF \E k \in 1..26 : UPPER[k] = word[i]
        THEN LOWER[CHOOSE k \in 1..26 : UPPER[k] = word[i]] ELSE word[i]]

toLocaleUpperCase(word) ==
    [i \in 1..Len(word) |->
        IF \E k \in 1..26 : LOWER[k] = word[i]
        THEN UPPER[CHOOSE k \in 1..26 : LOWER[k] = word[i]] ELSE word[i]]

ACRONYMS ==
    <<<<"c", "i", "a">>, <<"c", "n", "p", "j">>, <<"c", "p", "f">>, <<"l", "t", "d", "a">>,
      <<"m", "e">>, <<"r", "g">>>>

PREPOSITIONS ==
    <<<<"a">>, <<"c", "o", "m">>, <<"d", "a">>, <<"d", "a", "s">>, <<"d", "e">>, <<"d", "o">>,
      <<"d", "o", "s">>, <<"e">>, <<"e", "m">>, <<"n", "a">>, <<"n", "a", "s">>, <<"n", "o">>,
      <<"n", "o", "s">>, <<"o">>, <<"p", "o", "r">>, <<"s", "e", "m">>>>

\* value.split(' '): the pieces between the spaces, empty pieces included
RECURSIVE split(_)
split(value) ==
    IF \A i \in 1..Len(value) : value[i] # " " THEN <<value>>
    ELSE LET i == CHOOSE k \in 1..Len(value) :
                      value[k] = " " /\ \A j \in 1..(k - 1) : value[j] # " "
         IN <<SubSeq(value, 1, i - 1)>> \o split(SubSeq(value, i + 1, Len(value)))

\* words.join(' ')
RECURSIVE join(_)
join(words) ==
    IF words = <<>> THEN <<>>
    ELSE IF Len(words) = 1 THEN words[1]
    ELSE words[1] \o <<" ">> \o join(Tail(words))

\* list.indexOf(word) !== -1
includes(list, word) == \E k \in 1..Len(list) : list[k] = word

\* the callback with the lowercase rule applied from index 0 on
capitalizeWord_fromFirst(word, index, lowerCaseWords, upperCaseWords) ==
    LET lowerCaseWord == toLocaleLowerCase(word)
        upperCaseWord == toLocaleUpperCase(word)
    IN IF index >= 0 /\ includes(lowerCaseWords, lowerCaseWord) THEN lowerCaseWord
       ELSE IF includes(upperCaseWords, upperCaseWord) THEN upperCaseWord
       ELSE <<upperCaseWord[1]>> \o SubSeq(lowerCaseWord, 2, Len(lowerCaseWord))

\* the callback of map, on the word at index of the filtered array
capitalizeWord(word, index, lowerCaseWords, upperCaseWords) ==
    LET lowerCaseWord == toLocaleLowerCase(word)
        upperCaseWord == toLocaleUpperCase(word)
    IN IF index > 0 /\ includes(lowerCaseWords, lowerCaseWord) THEN lowerCaseWord
       ELSE IF includes(upperCaseWords, upperCaseWord) THEN upperCaseWord
       ELSE <<upperCaseWord[1]>> \o SubSeq(lowerCaseWord, 2, Len(lowerCaseWord))

capitalize(value, lowerCaseWords, upperCaseWords) ==
    LET words == SelectSeq(split(value), LAMBDA word : word # <<>>)
    IN join([k \in 1..Len(words) |->
                capitalizeWord(words[k], k - 1, lowerCaseWords, upperCaseWords)])

(***************************************************************************)
(* The record of a call                                                    *)
(***************************************************************************)
NoOpt == [pad |-> FALSE, state |-> NoState]

\* no call in progress and no array handed out: a caller makes its next call
\* once it has dropped the result of the one before
Idle == /\ op = "none" /\ arg = <<>> /\ opt = NoOpt /\ out = <<>> /\ ok = FALSE
        /\ ret = "none"

\* the record of a call of a pure function: the tables are not touched
Call(name, a, o, resultString, resultBoolean) ==
    /\ op' = name
    /\ arg' = a
    /\ opt' = o
    /\ out' = resultString
    /\ ok' = resultBoolean
    /\ ret' = "none"
    /\ UNCHANGED CITIES_DATA

\* the caller drops the result of its call; the tables stay as the call left them
Return ==
    /\ op # "none"
    /\ op' = "none" /\ arg' = <<>> /\ opt' = NoOpt /\ out' = <<>> /\ ok' = FALSE
    /\ ret' = "none"
    /\ UNCHANGED CITIES_DATA

\* the table with every array in collation order
SortedCities ==
    [DF |-> <<"Brasilia">>,
     RS |-> <<"Agudo", "Bage", "Canoas">>,
     SP |-> <<"Adamantina", "Campinas", "Santos">>]

(***************************************************************************)
(* The generators                                                          *)
(***************************************************************************)
\* the state arguments tried: absent, every known code, an unknown value
GenerateStates == {NoState, "XX"} \cup Range(STATES)

CpfGenerate ==
    /\ op = "none"
    /\ \E state \in GenerateStates : \E result \in cpf_generate(state) :
           Call("cpf.generate", <<>>, [NoOpt EXCEPT !.state = state], result, FALSE)

CnpjGenerate ==
    /\ op = "none"
    /\ \E result \in cnpj_generate : Call("cnpj.generate", <<>>, NoOpt, result, FALSE)

InitGenerate == Idle /\ CITIES_DATA = SortedCities

NextGenerate == CpfGenerate \/ CnpjGenerate \/ Return

SpecGenerate == InitGenerate /\ [][NextGenerate]_vars

\* C1: every string cpf.generate returns (for every draw of the random digits
\* and every state argument) is accepted by cpf.isValid, and every string
\* cnpj.generate returns is accepted by cnpj.isValid.
C1_GenerateIsValid ==
    /\ op = "cpf.generate" => cpf_isValid(out)
    /\ op = "cnpj.generate" => cnpj_isValid(out)

(***************************************************************************)
(* The formatters                                                          *)
(***************************************************************************)
\* a format argument holds up to the fixed length plus MaxExtraDigits digits
MaxExtraDigits == 1

\* the digits of an argument count up from one of the digits 0..MaxFirstDigit
MaxFirstDigit == 1

\* the fields of a boleto and of a processo count up from 0..MaxFieldDigit
MaxFieldDigit == 2

\* n digits counting up from first: no two neighbours are equal
Ruler(n, first) == [i \in 1..n |-> DIGITS[((i - 1 + first) % 10) + 1]]

InsertAt(s, p, c) == SubSeq(s, 1, p) \o <<c>> \o SubSeq(s, p + 1, Len(s))

\* characters that are not digits: separators of the formats and a letter
OtherChars == {".", "-", "x"}

\* digit strings of up to length + MaxExtraDigits digits: rulers and repeated digits
DigitStrings(length) ==
    {Ruler(n, first) : n \in 0..(length + MaxExtraDigits), first \in 0..MaxFirstDigit}
    \cup {Repeat(d, length) : d \in Digit}

\* the arguments tried on a formatter with the separator table sep: digit
\* strings, bare, with one other character anywhere, and with every separator
\* of the format already in place
FormatArguments(length, sep) ==
    LET ds == DigitStrings(length)
    IN ds \cup UNION {{InsertAt(d, p, c) : p \in 0..Len(d), c \in OtherChars} : d \in ds}
          \cup {reduceFormat(d, 0, d, sep) : d \in ds}

\* a 47-digit line with its four check digits computed from the other digits
boletoLine(f1, f2, f3, tail) ==
    LET general == mod11(slice(f1, 0, 4) \o tail \o slice(f1, 4, 9) \o f2 \o f3)
    IN f1 \o toString(mod10(f1)) \o f2 \o toString(mod10(f2)) \o f3 \o toString(mod10(f3))
       \o toString(general) \o tail

CheckedBoleto ==
    {boletoLine(Ruler(9, a), Ruler(10, b), Ruler(10, c), Ruler(14, d)) :
        a \in 0..MaxFieldDigit, b \in 0..MaxFieldDigit, c \in 0..MaxFieldDigit,
        d \in 0..MaxFieldDigit}

\* a 20-digit processo number with its two check digits computed from the others
processoNumber(sequential, rest) ==
    sequential \o padStart(toString(verifierOf(sequential \o rest)), CHECK_DIGIT_LENGTH, "0")
    \o rest

CheckedProcesso ==
    {processoNumber(Ruler(7, a), Ruler(11, b)) : a \in 0..MaxFieldDigit, b \in 0..MaxFieldDigit}
    \cup {processoNumber(Repeat(d, 7), Repeat(d, 11)) : d \in Digit}

\* 11-digit and 14-digit strings with both check digits computed from the base
CheckedCpf == UNION {cpf_generate(state) : state \in GenerateStates}

CheckedCnpj == cnpj_generate

Pad(p) == [NoOpt EXCEPT !.pad = p]

CpfFormat ==
    /\ op = "none"
    /\ \E a \in FormatArguments(cpf_LENGTH, cpf_separators) \cup CheckedCpf : \E p \in BOOLEAN :
           Call("cpf.format", a, Pad(p), cpf_format(a, p), FALSE)

CnpjFormat ==
    /\ op = "none"
    /\ \E a \in FormatArguments(cnpj_LENGTH, cnpj_separators) \cup CheckedCnpj : \E p \in BOOLEAN :
           Call("cnpj.format", a, Pad(p), cnpj_format(a, p), FALSE)

CepFormat ==
    /\ op = "none"
    /\ \E a \in FormatArguments(cep_LENGTH, cep_separators) :
           Call("cep.format", a, NoOpt, cep_format(a), FALSE)

BoletoFormat ==
    /\ op = "none"
    /\ \E a \in FormatArguments(boleto_LENGTH, boleto_separators) \cup CheckedBoleto :
           Call("boleto.format", a, NoOpt, boleto_format(a), FALSE)

ProcessoFormat ==
    /\ op = "none"
    /\ \E a \in FormatArguments(processo_LENGTH, processo_separators) \cup CheckedProcesso :
           Call("processo.format", a, NoOpt, processo_format(a), FALSE)

InitFormat == Idle /\ CITIES_DATA = SortedCities

NextFormat ==
    CpfFormat \/ CnpjFormat \/ CepFormat \/ BoletoFormat \/ ProcessoFormat \/ Return

SpecFormat == InitFormat /\ [][NextFormat]_vars

(***************************************************************************)
(* Claims about the formatters                                             *)
(***************************************************************************)
FormatOps == {"cpf.format", "cnpj.format", "cep.format", "boleto.format", "processo.format"}

\* the fixed length and the separator table of the formatter called
LengthOf(o) ==
    CASE o = "cpf.format" -> 11
      [] o = "cnpj.format" -> 14
      [] o = "cep.format" -> 8
      [] o = "boleto.format" -> 47
      [] o = "processo.format" -> 20

SeparatorsOf(o) ==
    CASE o = "cpf.format" -> (2 :> <<".">>) @@ (5 :> <<".">>) @@ (8 :> <<"-">>)
      [] o = "cnpj.format" -> (1 :> <<".">>) @@ (4 :> <<".">>) @@ (7 :> <<"/">>) @@ (11 :> <<"-">>)
      [] o = "cep.format" -> (4 :> <<"-">>)
      [] o = "boleto.format" ->
            (4 :> <<".">>) @@ (14 :> <<".">>) @@ (25 :> <<".">>)
            @@ (9 :> <<" ">>) @@ (20 :> <<" ">>) @@ (31 :> <<" ">>) @@ (32 :> <<" ">>)
      [] o = "processo.format" ->
            (6 :> <<"-">>) @@ (8 :> <<".">>) @@ (12 :> <<".">>) @@ (15 :> <<".">>)

DigitsOf(s) == SelectSeq(s, LAMBDA c : c \in Digit)

Truncated(s, n) == IF Len(s) <= n THEN s ELSE SubSeq(s, 1, n)

LeftPadded(s, n) == IF Len(s) >= n THEN s ELSE [i \in 1..(n - Len(s)) |-> "0"] \o s

\* the digit string the formatter called is to render
CanonicalDigits ==
    Truncated(IF opt.pad THEN LeftPadded(DigitsOf(arg), LengthOf(op)) ELSE DigitsOf(arg),
              LengthOf(op))

\* t with its separator after every listed position that is not the last digit of t
RECURSIVE Separated(_, _, _)
Separated(t, i, sep) ==
    IF i > Len(t) THEN <<>>
    ELSE <<t[i]>> \o (IF (i - 1) \in DOMAIN sep /\ i < Len(t) THEN sep[i - 1] ELSE <<>>)
         \o Separated(t, i + 1, sep)

\* C2 as claimed: for CPF, CNPJ, boleto and judicial process, the format of a
\* digit string of the fixed length whose check digits are correctly computed
\* is accepted by isValid.
C2_FormatOfCheckedIsValid ==
    /\ (op = "cpf.format" /\ arg \in CheckedCpf) => cpf_isValid(out)
    /\ (op = "cnpj.format" /\ arg \in CheckedCnpj) => cnpj_isValid(out)
    /\ (op = "boleto.format" /\ arg \in CheckedBoleto) => boleto_isValid(out)
    /\ (op = "processo.format" /\ arg \in CheckedProcesso) => processo_isValid(out)

\* C2 as amended: for CPF, CNPJ, boleto and judicial process, the format of a
\* digit string of the fixed length whose check digits are correctly computed,
\* and which is not a repeated-digit (reserved) CPF or CNPJ number, is accepted
\* by isValid.
C2_FormatOfCheckedUnreservedIsValid ==
    /\ (op = "cpf.format" /\ arg \in CheckedCpf /\ arg # Repeat(arg[1], 11)) => cpf_isValid(out)
    /\ (op = "cnpj.format" /\ arg \in CheckedCnpj /\ arg # Repeat(arg[1], 14))
           => cnpj_isValid(out)
    /\ (op = "boleto.format" /\ arg \in CheckedBoleto) => boleto_isValid(out)
    /\ (op = "processo.format" /\ arg \in CheckedProcesso) => processo_isValid(out)

\* a CPF with computed check digits, not reserved, was formatted with its three
\* separators and the result is valid
C2_Witness ==
    /\ op = "cpf.format" /\ arg \in CheckedCpf /\ arg # Repeat(arg[1], 11)
    /\ Len(out) = 14 /\ cpf_isValid(out)

\* C4: for each formatter and every argument, the digits of format(argument)
\* are the digits of the argument truncated to the fixed length; with the pad
\* option they are the digits left-padded with "0" to the fixed length and then
\* truncated to it.
C4_FormatKeepsDigits == op \in FormatOps => DigitsOf(out) = CanonicalDigits

\* a padded call: fewer digits than the fixed length and another character went
\* in, the fixed number of digits and separators came out
C4_Witness ==
    /\ op = "cnpj.format" /\ opt.pad
    /\ Len(DigitsOf(arg)) \in 1..13 /\ Len(arg) > Len(DigitsOf(arg))
    /\ Len(DigitsOf(out)) = 14 /\ Len(out) = 18

\* C5: for each formatter and every argument, the result is the truncated
\* digit string with a separator after the digit at a listed position exactly
\* when that digit is not its last digit; the result never ends with a separator.
C5_SeparatorsOnlyBetweenDigits ==
    op \in FormatOps =>
        /\ out = Separated(CanonicalDigits, 1, SeparatorsOf(op))
        /\ out = <<>> \/ out[Len(out)] \in Digit

(***************************************************************************)
(* The validators                                                          *)
(***************************************************************************)
\* a phone argument holds up to PHONE_MAX_LENGTH + MaxExtraPhoneDigits digits
MaxExtraPhoneDigits == 1

\* s with its last digit replaced by the next digit
Corrupted(s) == [s EXCEPT ![Len(s)] = DIGITS[((parseInt(s[Len(s)]) + 1) % 10) + 1]]

\* the spellings tried of a digit string d whose format has the separator table
\* sep: bare, fully separated, with the last separator only, and with one other
\* character after the third digit
Spellings(d, sep) ==
    LET last == CHOOSE i \in DOMAIN sep : \A j \in DOMAIN sep : j <= i
    IN {d, reduceFormat(d, 0, d, sep), InsertAt(d, last + 1, sep[last][1])}
       \cup {InsertAt(d, 3, c) : c \in {" ", "x"}}

\* s with the digit at index i (from 0) replaced by the next digit
CorruptedAt(s, i) == [s EXCEPT ![i + 1] = DIGITS[((parseInt(s[i + 1]) + 1) % 10) + 1]]

CpfArguments ==
    {<<>>} \cup UNION {Spellings(d, cpf_separators) \cup Spellings(Corrupted(d), cpf_separators) :
                          d \in CheckedCpf}
           \cup {CorruptedAt(d, cpf_CHECK_DIGITS_INDEXES[1]) : d \in CheckedCpf}

CnpjArguments ==
    {<<>>} \cup UNION {Spellings(d, cnpj_separators) : d \in CheckedCnpj \cup cnpj_RESERVED_NUMBERS}
           \cup {CorruptedAt(d, i) : d \in CheckedCnpj, i \in Range(cnpj_CHECK_DIGITS_INDEXES)}

\* the usual spelling of a PIS: ddd.ddddd.dd-d
pis_separators == (2 :> <<".">>) @@ (7 :> <<".">>) @@ (9 :> <<"-">>)

PisArguments ==
    {<<>>} \cup UNION {Spellings(base \o <<c>>, pis_separators) :
                          base \in generateRandomNumber(pis_LENGTH - 1), c \in Digit}

\* area codes tried: known ones, unknown ones and 00
AreaCodes == {<<"1", "1">>, <<"6", "1">>, <<"5", "5">>, <<"2", "1">>, <<"1", "0">>, <<"0", "0">>}

\* the digits of the phone arguments: an area code, any third digit, and a ruler
PhoneDigits ==
    {SubSeq(area \o <<third>> \o Ruler(PHONE_MAX_LENGTH + MaxExtraPhoneDigits, first), 1, n) :
        area \in AreaCodes, third \in Digit, first \in 0..MaxFirstDigit,
        n \in 0..(PHONE_MAX_LENGTH + MaxExtraPhoneDigits)}

\* bare, and spelled (dd) ddddd-dddd
PhoneArguments ==
    PhoneDigits
    \cup {<<"(">> \o SubSeq(d, 1, 2) \o <<")", " ">> \o SubSeq(d, 3, Len(d) - 4) \o <<"-">>
          \o SubSeq(d, Len(d) - 3, Len(d)) : d \in {x \in PhoneDigits : Len(x) >= 6}}

CpfIsValid ==
    /\ op = "none"
    /\ \E a \in CpfArguments : Call("cpf.isValid", a, NoOpt, <<>>, cpf_isValid(a))

CnpjIsValid ==
    /\ op = "none"
    /\ \E a \in CnpjArguments : Call("cnpj.isValid", a, NoOpt, <<>>, cnpj_isValid(a))

PisIsValid ==
    /\ op = "none"
    /\ \E a \in PisArguments : Call("pis.isValid", a, NoOpt, <<>>, pis_isValid(a))

PhoneIsValid ==
    /\ op = "none"
    /\ \E a \in PhoneArguments : Call("phone.isValid", a, NoOpt, <<>>, phone_isValid(a))

InitValidate == Idle /\ CITIES_DATA = SortedCities

NextValidate == CpfIsValid \/ CnpjIsValid \/ PisIsValid \/ PhoneIsValid \/ Return

SpecValidate == InitValidate /\ [][NextValidate]_vars

(***************************************************************************)
(* Claims about the validators                                             *)
(***************************************************************************)
\* the digits of s are one digit repeated n times
IsRepeatedDigit(s, n) == Len(DigitsOf(s)) = n /\ \A i \in 1..n : DigitsOf(s)[i] = DigitsOf(s)[1]

\* C3: cpf.isValid, cnpj.isValid and pis.isValid reject every argument whose
\* digits are a reserved number (one digit repeated to the fixed length), bare
\* or with separators, whether or not its check digits are correct.
C3_ReservedRejected ==
    /\ (op = "cpf.isValid" /\ IsRepeatedDigit(arg, 11)) => ~ok
    /\ (op = "cnpj.isValid" /\ IsRepeatedDigit(arg, 14)) => ~ok
    /\ (op = "pis.isValid" /\ IsRepeatedDigit(arg, 11)) => ~ok

\* a reserved CPF, spelled with its separators and with correct check digits,
\* was rejected
C3_Witness ==
    /\ op = "cpf.isValid" /\ IsRepeatedDigit(arg, 11) /\ Len(arg) = 14
    /\ cpf_isValidFormat(arg) /\ cpf_isValidChecksum(DigitsOf(arg)) /\ ~ok

\* the area codes of the state table
KnownAreaCodes == UNION {Range(STATES_DATA[s].areaCodes) : s \in DOMAIN STATES_DATA}

\* the number two digit characters denote
TwoDigits(a, b) == 10 * parseInt(a) + parseInt(b)

\* C6: phone.isValid accepts an argument only if it has 10 or 11 digits and its
\* first two digits are a known area code; with 10 digits the third digit is in
\* 2..5 (the mobile set is not consulted), with 11 digits it is in 6..9 (the
\* landline set is not consulted); any other number of digits is rejected.
C6_PhoneLengthDecidesFirstDigitRule ==
    op = "phone.isValid" =>
        LET d == DigitsOf(arg)
        IN /\ Len(d) \notin {10, 11} => ~ok
           /\ ok => /\ TwoDigits(d[1], d[2]) \in KnownAreaCodes
                    /\ Len(d) = 10 => parseInt(d[3]) \in 2..5
                    /\ Len(d) = 11 => parseInt(d[3]) \in 6..9

\* a landline number spelled (dd) dddd-dddd was accepted
C6_Witness ==
    /\ op = "phone.isValid" /\ ok
    /\ Len(DigitsOf(arg)) = 10 /\ Len(arg) = 14

(***************************************************************************)
(* The lookup tables                                                       *)
(***************************************************************************)
\* the arrays that list the set of names S in some order
Orders(S) == {a \in [1..Cardinality(S) -> S] : Range(a) = S}

\* the arguments tried on getCities: none, codes, names, a wrong-case code, an
\* unknown code and the empty string
CityArguments ==
    {Undefined} \cup {Given(x) : x \in {"DF", "RS", "SP", "Sao Paulo", "Rio Grande do Sul",
                                         "sp", "XX", ""}}

GetCities ==
    /\ op = "none"
    /\ \E a \in CityArguments :
           LET r == getCities(a, CITIES_DATA)
           IN /\ op' = "getCities"
              /\ arg' = a
              /\ opt' = NoOpt
              /\ out' = r.array
              /\ ok' = FALSE
              /\ ret' = r.owner
              /\ CITIES_DATA' = r.table

GetStates ==
    /\ op = "none"
    /\ op' = "getStates"
    /\ arg' = <<>>
    /\ opt' = NoOpt
    /\ out' = getStates
    /\ ok' = FALSE
    /\ ret' = "new"
    /\ UNCHANGED CITIES_DATA

\* the data file lists the cities of a state in an order the code does not fix
InitLookup == Idle /\ CITIES_DATA \in [DF : Orders(CITIES.DF), RS : Orders(CITIES.RS),
                                       SP : Orders(CITIES.SP)]

NextLookup == GetCities \/ GetStates \/ Return

SpecLookup == InitLookup /\ [][NextLookup]_vars

(***************************************************************************)
(* Claims about the lookup tables                                          *)
(***************************************************************************)
\* C7: no call of getCities or getStates changes the reference tables (every
\* city array of CITIES_DATA keeps its elements in their order), and the array
\* a call returns is never an array of the table.
C7_TablesUntouched ==
    [][CITIES_DATA' = CITIES_DATA /\ ret' \notin DOMAIN CITIES_DATA]_vars

\* the array lists the names of S, each once, in ascending collation order
IsSortedListOf(array, S) ==
    /\ Range(array) = S /\ Len(array) = Cardinality(S)
    /\ \A i \in 1..(Len(array) - 1) : Rank(array[i]) < Rank(array[i + 1])

\* the states whose code or name is x
StatesNamed(x) == {c \in DOMAIN STATES_DATA : c = x \/ STATES_DATA[c].name = x}

\* C8: getCities(x) returns the sorted cities of the state whose code or name
\* equals x, the empty list when x is given and names no state (the empty
\* string and wrong-case codes included), and the sorted cities of all states
\* only when no argument is given.
C8_GetCitiesByArgument ==
    op = "getCities" =>
        IF ~arg.given THEN IsSortedListOf(out, UNION {CITIES[c] : c \in DOMAIN CITIES})
        ELSE IF StatesNamed(arg.val) = {} THEN out = <<>>
        ELSE \E c \in StatesNamed(arg.val) : IsSortedListOf(out, CITIES[c])

(***************************************************************************)
(* The capitalizer                                                         *)
(***************************************************************************)
\* a capitalize argument holds up to MaxValueLength characters
MaxValueLength == 5

\* the characters of the arguments: two letters, in both cases, and the space;
\* they spell the acronym "me" and the prepositions "e" and "em"
ValueChars == {"e", "m", "E", "M", " "}

CapitalizeArguments == UNION {Strings(ValueChars, n) : n \in 0..MaxValueLength}

\* the options tried: the defaults; lists of the caller's that share the word
\* "me"; an empty lowercase list
CapitalizeOptions ==
    {[lowerCaseWords |-> PREPOSITIONS, upperCaseWords |-> ACRONYMS],
     [lowerCaseWords |-> <<<<"m", "e">>, <<"e">>>>, upperCaseWords |-> <<<<"M", "E">>, <<"E", "M">>>>],
     [lowerCaseWords |-> <<>>, upperCaseWords |-> <<<<"M", "E">>>>]}

Capitalize ==
    /\ op = "none"
    /\ \E a \in CapitalizeArguments : \E o \in CapitalizeOptions :
           Call("capitalize", a, o, capitalize(a, o.lowerCaseWords, o.upperCaseWords), FALSE)

InitCapitalize == Idle /\ CITIES_DATA = SortedCities

NextCapitalize == Capitalize \/ Return

SpecCapitalize == InitCapitalize /\ [][NextCapitalize]_vars

(***************************************************************************)
(* Claims about the capitalizer                                            *)
(***************************************************************************)
\* the maximal runs of characters other than the space, in order
RECURSIVE Tokens(_)
Tokens(s) ==
    IF s = <<>> THEN <<>>
    ELSE IF s[1] = " " THEN Tokens(Tail(s))
    ELSE LET n == IF \E k \in 1..Len(s) : s[k] = " "
                  THEN (CHOOSE k \in 1..Len(s) : s[k] = " " /\ \A j \in 1..(k - 1) : s[j] # " ") - 1
                  ELSE Len(s)
         IN <<SubSeq(s, 1, n)>> \o Tokens(SubSeq(s, n + 1, Len(s)))

\* no space at either end and no two spaces in a row
SingleSpaced(s) ==
    /\ s # <<>> => s[1] # " " /\ s[Len(s)] # " "
    /\ \A i \in 1..(Len(s) - 1) : ~(s[i] = " " /\ s[i + 1] = " ")

Lowered(w) == toLocaleLowerCase(w)

Uppered(w) == toLocaleUpperCase(w)

Capitalized(w) == <<Uppered(w)[1]>> \o SubSeq(Lowered(w), 2, Len(w))

\* the word matches an entry of the list when letter case is ignored
MatchesIgnoringCase(list, w) == \E k \in 1..Len(list) : Lowered(list[k]) = Lowered(w)

\* C9: capitalize renders fully uppercase every token that matches, ignoring
\* letter case, an entry of the uppercase word list (unless the lowercase rule
\* applies to it: a later token of the lowercase list); with the default
\* options each of cia, cnpj, cpf, ltda, me, rg, in any letter case, comes out
\* as CIA, CNPJ, CPF, LTDA, ME, RG.
C9_UppercaseWordsUppercased ==
    op = "capitalize" =>
        LET words == Tokens(arg)
            rendered == Tokens(out)
        IN /\ Len(rendered) = Len(words)
           /\ \A k \in 1..Len(words) :
                  (/\ MatchesIgnoringCase(opt.upperCaseWords, words[k])
                   /\ ~(k > 1 /\ MatchesIgnoringCase(opt.lowerCaseWords, words[k])))
                  => rendered[k] = Uppered(words[k])

RECURSIVE Pow10(_)
Pow10(n) == IF n = 0 THEN 1 ELSE 10 * Pow10(n - 1)

\* the options argument: not passed, or an object with or without precision
OptionsOmitted == [passed |-> FALSE, hasPrecision |-> FALSE, precision |-> 0]

OptionsEmpty == [passed |-> TRUE, hasPrecision |-> FALSE, precision |-> 0]

OptionsPrecision(p) == [passed |-> TRUE, hasPrecision |-> TRUE, precision |-> p]

\* options: FormatOptions = { precision: 2 } stands in for a missing argument
\* only; options.precision of an object without the field is undefined
optionsPrecision(options) ==
    IF ~options.passed THEN [defined |-> TRUE, digits |-> 2]
    ELSE IF options.hasPrecision THEN [defined |-> TRUE, digits |-> options.precision]
    ELSE [defined |-> FALSE, digits |-> 0]

\* Number.prototype.toFixed(fractionDigits): undefined converts to 0 digits;
\* n is the integer nearest to the fraction times 10^f, the larger on a tie
toFixed(value, fractionDigits) ==
    LET f == IF fractionDigits.defined THEN fractionDigits.digits ELSE 0
        n == (2 * value.quarter * Pow10(f) + 4) \div 8
        whole == value.int + (n \div Pow10(f))
        fraction == padStart(toString(n % Pow10(f)), f, "0")
    IN (IF value.neg THEN <<"-">> ELSE <<>>) \o toString(whole)
       \o (IF f > 0 THEN <<".">> \o fraction ELSE <<>>)

\* s.replace('.', ','): the first occurrence only
replaceFirstDot(s) ==
    LET dots == {i \in 1..Len(s) : s[i] = "."}
    IN IF dots = {} THEN s
       ELSE [s EXCEPT ![CHOOSE i \in dots : \A j \in dots : i <= j] = ","]

\* the number of digits in a row in s from position i on
RECURSIVE digitRun(_, _)
digitRun(s, i) == IF i > Len(s) \/ ~IsDigit(s[i]) THEN 0 ELSE 1 + digitRun(s, i + 1)

\* s.replace(/(\d)(?=(\d{3})+(?!\d))/g, '$1.'): a dot after every digit that
\* is followed by a positive multiple of three digits and then no digit
RECURSIVE replaceThousands(_, _)
replaceThousands(s, i) ==
    IF i > Len(s) THEN <<>>
    ELSE <<s[i]>>
         \o (IF IsDigit(s[i]) /\ digitRun(s, i + 1) > 0 /\ digitRun(s, i + 1) % 3 = 0
             THEN <<".">> ELSE <<>>)
         \o replaceThousands(s, i + 1)

currency_format(value, options) ==
    replaceThousands(replaceFirstDot(toFixed(value, optionsPrecision(options))), 1)

\* value.replace(/\D/g, '')
replaceNonDigits(value) == SelectSeq(value, IsDigit)

NaN == [nan |-> TRUE, whole |-> 0, cents |-> 0]

\* n / 100
Hundredth(n) == [nan |-> FALSE, whole |-> n \div 100, cents |-> n % 100]

\* parse without the replace: parseInt reads the leading digits only
currency_parse_leadingDigits(value) ==
    LET lead == SubSeq(value, 1, digitRun(value, 1))
    IN IF lead = <<>> THEN NaN ELSE Hundredth(Number(lead))

currency_parse(value) ==
    LET digits == replaceNonDigits(value)
    IN Hundredth(Number(IF digits # <<>> THEN digits ELSE <<"0">>))

(***************************************************************************)
(* The currency formatter and parser                                       *)
(***************************************************************************)
\* the integer part of a value has up to MaxIntegerDigits digits
MaxIntegerDigits == 7

\* the precisions passed are 0..MaxPrecision
MaxPrecision == 4

\* a parse argument has up to MaxParseLength characters
MaxParseLength == 4

\* integer parts: 0, the rulers 1, 12, 123, ... and the all-nines 9, 99, ...
IntegerParts ==
    {0} \cup {Number(Ruler(n, 1)) : n \in 1..MaxIntegerDigits}
        \cup {Pow10(n) - 1 : n \in 1..MaxIntegerDigits}

CurrencyValues == [neg : BOOLEAN, int : IntegerParts, quarter : 0..3]

CurrencyOptions ==
    {OptionsOmitted, OptionsEmpty} \cup {OptionsPrecision(p) : p \in 0..MaxPrecision}

ParseChars == {"0", "7", ",", "R"}

ParseArguments ==
    UNION {Strings(ParseChars, n) : n \in 0..MaxParseLength}
    \cup {<<"R", "$", " ", "1", ".", "2", "3", "4", ",", "5", "6">>,
          <<"R", "$", " ", "0", ",", "5", "0">>}

CurrencyFormat ==
    /\ op = "none"
    /\ \E value \in CurrencyValues : \E options \in CurrencyOptions :
           Call("currency.format", value, options, currency_format(value, options), FALSE)

CurrencyParse ==
    /\ op = "none"
    /\ \E value \in ParseArguments :
           Call("currency.parse", value, NoOpt, currency_parse(value), FALSE)

InitCurrency == Idle /\ CITIES_DATA = SortedCities

NextCurrency == CurrencyFormat \/ CurrencyParse \/ Return

SpecCurrency == InitCurrency /\ [][NextCurrency]_vars

(***************************************************************************)
(* Claims about the currency formatter and parser                          *)
(***************************************************************************)
AllDigits(s) == \A i \in 1..Len(s) : s[i] \in Digit

\* s is a digit string with a dot before every group of three digits counted
\* from the right, and nowhere else
GroupedByThree(s) ==
    /\ s # <<>> /\ s[1] \in Digit
    /\ \A i \in 1..Len(s) :
           IF (Len(s) - i + 1) % 4 = 0 THEN s[i] = "." ELSE s[i] \in Digit

\* s without its minus sign
Unsigned(s) == IF s # <<>> /\ s[1] = "-" THEN Tail(s) ELSE s

\* s is a grouped integer part followed, when p > 0, by a comma and exactly p
\* digits
FixedPoint(s, p) ==
    LET u == Unsigned(s)
    IN IF p = 0 THEN GroupedByThree(u)
       ELSE /\ Len(u) >= p + 2
            /\ u[Len(u) - p] = ","
            /\ AllDigits(SubSeq(u, Len(u) - p + 1, Len(u)))
            /\ GroupedByThree(SubSeq(u, 1, Len(u) - p - 1))

\* C11: for every value and every precision p >= 0, currency.format returns an
\* integer part grouped by dots every three digits from the right, then (when
\* p > 0) one comma and exactly p fraction digits, with no dot among the
\* fraction digits.
C11_GroupedIntegerPlainFraction ==
    (op = "currency.format" /\ opt.hasPrecision) => FixedPoint(out, opt.precision)

\* C12: when the caller gives no precision (no options argument, or an options
\* object without the precision field) currency.format returns exactly two
\* fraction digits.
C12_DefaultPrecisionIsTwo ==
    (op = "currency.format" /\ ~opt.hasPrecision) => FixedPoint(out, 2)

\* the integer the digit string d denotes, from its digits and their places
RECURSIVE PlaceValue(_, _)
PlaceValue(d, i) ==
    IF i > Len(d) THEN 0 ELSE parseInt(d[i]) * Pow10(Len(d) - i) + PlaceValue(d, i + 1)

\* C13: currency.parse(s) is the integer denoted by the digits of s (every
\* other character removed) divided by 100, and 0 when s holds no digit.
C13_ParseIsDigitsOverHundred ==
    op = "currency.parse" =>
        LET n == PlaceValue(DigitsOf(arg), 1)
        IN /\ ~out.nan
           /\ 100 * out.whole + out.cents = n /\ out.cents \in 0..99
           /\ DigitsOf(arg) = <<>> => (out.whole = 0 /\ out.cents = 0)

\* "R$ 1.234,56" was parsed to 1234.56
C13_Witness ==
    /\ op = "currency.parse"
    /\ Len(arg) = 11 /\ arg[1] = "R" /\ Len(DigitsOf(arg)) = 6
    /\ out = [nan |-> FALSE, whole |-> 1234, cents |-> 56]

(***************************************************************************)
(* utilities/email                                                         *)
(***************************************************************************)
MAX_RECIPIENT_LENGTH == 64

MAX_DOMAIN_LENGTH == 253

MAX_EMAIL_LENGTH == MAX_RECIPIENT_LENGTH + 1 + MAX_DOMAIN_LENGTH

\* [a-zA-Z0-9], on the letters and digits the model writes
ALNUM == {"a", "b", "c", "o", "A", "Z"} \cup Digit

\* [!#$%&'*+\-/=?^_{|}~] and the grave accent
SPECIALS ==
    {"!", "#", "$", "%", "&", "'", "*", "+", "-", "/", "=", "?", "^", "_", "{", "|", "}", "~"}

\* ([a-zA-Z0-9][trail]{0,1})+ from character i of s: the positions at which a
\* match of the group can end (the index of the character after it). Each
\* round takes one alphanumeric and at most one trail character, so a match
\* can run on until a character of neither class, or a trail character that
\* no alphanumeric precedes.
unitsFrom(s, i, trail) ==
    LET stops == {k \in i..Len(s) :
                     \/ s[k] \notin ALNUM \cup trail
                     \/ s[k] \notin ALNUM /\ (k = i \/ s[k - 1] \notin ALNUM)}
        stop == IF stops = {} THEN Len(s) + 1 ELSE CHOOSE k \in stops : \A j \in stops : k <= j
    IN (i + 1)..stop

\* the largest member of a non-empty set of positions: the greedy choice
Greatest(S) == CHOOSE x \in S : \A y \in S : y <= x

NoMatch == [matched |-> FALSE, recipient |-> <<>>, domain |-> <<>>, topLevelDomain |-> <<>>]

\* validEmailRegex.exec(email): groups 1, 3 and 5 of the match, or null
validEmailRegex(email) ==
    LET starts == {1} \cup (IF email # <<>> /\ email[1] \in SPECIALS THEN {2} ELSE {})
        ats == {e \in UNION {unitsFrom(email, st, SPECIALS \cup {"."}) : st \in starts} :
                   e <= Len(email) /\ email[e] = "@"}
        dots(e) == {d \in unitsFrom(email, e + 1, {"-", "."}) :
                       /\ d < Len(email) /\ email[d] = "."
                       /\ \A k \in (d + 1)..Len(email) : email[k] \in ALNUM}
        found == {e \in ats : dots(e) # {}}
    IN IF found = {} THEN NoMatch
       ELSE LET e == Greatest(found)
                d == Greatest(dots(e))
            IN [matched |-> TRUE,
                recipient |-> SubSeq(email, 1, e - 1),
                domain |-> SubSeq(email, e + 1, d - 1),
                topLevelDomain |-> SubSeq(email, d, Len(email))]

\* stringIsBiggerThan that never finds a string too long
stringIsBiggerThan_never(len, strs) == FALSE

RECURSIVE stringIsBiggerThan(_, _)
stringIsBiggerThan(len, strs) ==
    IF strs = <<>> THEN 0 > len
    ELSE stringIsBiggerThan(len - Len(strs[1]), Tail(strs))

email_isValid(email) ==
    IF email = <<>> THEN FALSE
    ELSE IF stringIsBiggerThan(MAX_EMAIL_LENGTH, <<email>>) THEN FALSE
    ELSE LET matchedEmail == validEmailRegex(email)
         IN IF ~matchedEmail.matched THEN FALSE
            ELSE IF stringIsBiggerThan(MAX_RECIPIENT_LENGTH, <<matchedEmail.recipient>>)
                 THEN FALSE
            ELSE IF stringIsBiggerThan(MAX_DOMAIN_LENGTH,
                                       <<matchedEmail.domain, matchedEmail.topLevelDomain>>)
                 THEN FALSE
            ELSE TRUE

(***************************************************************************)
(* The email validator                                                     *)
(***************************************************************************)
\* recipients and domains are tried up to MaxOverLength characters over their
\* limits
MaxOverLength == 2

\* the top-level domain the long addresses end with
DotCo == <<".", "c", "o">>

Recipients ==
    {Repeat("a", n) : n \in {1, 2} \cup ((MAX_RECIPIENT_LENGTH - 1)..(MAX_RECIPIENT_LENGTH + MaxOverLength))}
    \cup {<<"+">> \o Repeat("a", MAX_RECIPIENT_LENGTH - 1), <<"+">> \o Repeat("a", MAX_RECIPIENT_LENGTH)}
    \cup {<<>>, <<"a", ".", "b">>, <<"a", "+">>, <<"+", "a">>, <<".", "a">>, <<"a", ".", ".", "b">>,
          <<"+", "+", "a">>, <<"a", " ", "b">>}

Domains ==
    {Repeat("b", n) \o DotCo :
        n \in {1} \cup ((MAX_DOMAIN_LENGTH - 4)..(MAX_DOMAIN_LENGTH - 3 + MaxOverLength))}
    \cup {Repeat("b", MAX_DOMAIN_LENGTH - 4) \o <<".">> \o DotCo,
          Repeat("b", MAX_DOMAIN_LENGTH - 5) \o <<".">> \o DotCo}
    \cup {<<>>, <<"b">>, <<"b", ".">>, <<".", "c", "o">>, <<"b", "-", ".", "c", "o">>,
          <<"b", ".", ".", "c", "o">>, <<"b", ".", "c", ".", "c", "o">>,
          <<"-", "b", ".", "c", "o">>, <<"b", ".", "c", "-", "o">>, <<"b", "_", "c", ".", "c", "o">>}

EmailArguments ==
    UNION {{r \o <<"@">> \o d, r \o d, r \o <<"@", "@">> \o d, r \o <<"@">> \o d \o <<"@">> \o d} :
              r \in Recipients, d \in Domains}

EmailIsValid ==
    /\ op = "none"
    /\ \E a \in EmailArguments : Call("email.isValid", a, NoOpt, <<>>, email_isValid(a))

InitEmail == Idle /\ CITIES_DATA = SortedCities

NextEmail == EmailIsValid \/ Return

SpecEmail == InitEmail /\ [][NextEmail]_vars

\* the positions of the character c in s
PositionsOf(c, s) == {i \in 1..Len(s) : s[i] = c}

\* C15: email.isValid accepts an address only if it holds exactly one '@', the
\* part before it has at most 64 characters, the part after it has at most 253
\* characters and holds a '.', and the whole address has at most 318
\* characters.
C15_AcceptedWithinLimits ==
    (op = "email.isValid" /\ ok) =>
        /\ Cardinality(PositionsOf("@", arg)) = 1
        /\ LET at == CHOOSE i \in PositionsOf("@", arg) : TRUE
           IN /\ at - 1 <= 64
              /\ Len(arg) - at <= 253
              /\ \E i \in PositionsOf(".", arg) : i > at
        /\ Len(arg) <= 318

\* an address of 64 characters, an '@' and 253 characters was accepted
C15_Witness ==
    /\ op = "email.isValid" /\ ok
    /\ Len(arg) = 318 /\ arg[65] = "@"

(***************************************************************************)
(* Calls with an argument that is not a string                             *)
(***************************************************************************)
\* JavaScript values: undefined, null, booleans, numbers and strings; val is
\* the text of the value
JsUndefined == [type |-> "undefined", val |-> <<>>]

JsNull == [type |-> "null", val |-> <<>>]

JsBoolean(b) == [type |-> "boolean", val |-> IF b THEN <<"true">> ELSE <<"false">>]

JsNumber(n) == [type |-> "number", val |-> toString(n)]

JsString(s) == [type |-> "string", val |-> s]

\* !value
falsy(value) ==
    \/ value.type \in {"undefined", "null"}
    \/ value.type = "boolean" /\ value.val = <<"false">>
    \/ value.type = "number" /\ value.val = <<"0">>
    \/ value.type = "string" /\ value.val = <<>>

\* the guard of every isValid: !value || typeof value !== 'string'
notAString(value) == falsy(value) \/ value.type # "string"

\* how a call completes: it returns a value or throws
Returned(value) == [threw |-> FALSE, value |-> value]

Threw(error) == [threw |-> TRUE, value |-> error]

\* value.method(...) with a method of String.prototype: reading a property of
\* undefined or null throws a TypeError, and on a number or a boolean the
\* property is undefined, so calling it throws a TypeError
hasStringMethods(value) == value.type = "string"

\* parse(value) for any value: value.replace(...) is evaluated first
currency_parseOf(value) ==
    IF ~hasStringMethods(value) THEN Threw("TypeError")
    ELSE Returned(currency_parse(value.val))

\* capitalize(value) for any value: value.split(' ') is evaluated first
capitalizeOf(value) ==
    IF ~hasStringMethods(value) THEN Threw("TypeError")
    ELSE Returned(capitalize(value.val, PREPOSITIONS, ACRONYMS))

\* isValid(value) for any value: the guard, then the validation of the string
isValidOf(value, validated) == IF notAString(value) THEN FALSE ELSE validated

\* the numbers passed are 0..MaxNumber
MaxNumber == 5

\* the values passed: absent ones, values of other types, and two strings
JsValues ==
    {JsUndefined, JsNull, JsBoolean(TRUE), JsBoolean(FALSE)}
    \cup {JsNumber(n) : n \in 0..MaxNumber}
    \cup {JsString(<<>>), JsString(<<"1">>)}

CpfIsValidOf ==
    /\ op = "none"
    /\ \E v \in JsValues : Call("cpf.isValid", v, NoOpt, <<>>, isValidOf(v, cpf_isValid(v.val)))

CnpjIsValidOf ==
    /\ op = "none"
    /\ \E v \in JsValues : Call("cnpj.isValid", v, NoOpt, <<>>, isValidOf(v, cnpj_isValid(v.val)))

CepIsValidOf ==
    /\ op = "none"
    /\ \E v \in JsValues : Call("cep.isValid", v, NoOpt, <<>>, isValidOf(v, cep_isValid(v.val)))

\* parsePhoneDigits calls onlyNumbers(phone) before the guard is looked at;
\* onlyNumbers is total on any input
PhoneIsValidOf ==
    /\ op = "none"
    /\ \E v \in JsValues :
           Call("phone.isValid", v, NoOpt, <<>>, isValidOf(v, phone_isValid(v.val)))

PisIsValidOf ==
    /\ op = "none"
    /\ \E v \in JsValues : Call("pis.isValid", v, NoOpt, <<>>, isValidOf(v, pis_isValid(v.val)))

BoletoIsValidOf ==
    /\ op = "none"
    /\ \E v \in JsValues :
           Call("boleto.isValid", v, NoOpt, <<>>, isValidOf(v, boleto_isValid(v.val)))

ProcessoIsValidOf ==
    /\ op = "none"
    /\ \E v \in JsValues :
           Call("processo.isValid", v, NoOpt, <<>>, isValidOf(v, processo_isValid(v.val)))

EmailIsValidOf ==
    /\ op = "none"
    /\ \E v \in JsValues :
           Call("email.isValid", v, NoOpt, <<>>, isValidOf(v, email_isValid(v.val)))

CurrencyParseOf ==
    /\ op = "none"
    /\ \E v \in JsValues : Call("currency.parse", v, NoOpt, currency_parseOf(v), FALSE)

CapitalizeOf ==
    /\ op = "none"
    /\ \E v \in JsValues : Call("capitalize", v, NoOpt, capitalizeOf(v), FALSE)

InitAnyValue == Idle /\ CITIES_DATA = SortedCities

NextAnyValue ==
    \/ CpfIsValidOf \/ CnpjIsValidOf \/ CepIsValidOf \/ PhoneIsValidOf \/ PisIsValidOf
    \/ BoletoIsValidOf \/ ProcessoIsValidOf \/ EmailIsValidOf
    \/ CurrencyParseOf \/ CapitalizeOf \/ Return

SpecAnyValue == InitAnyValue /\ [][NextAnyValue]_vars

IsValidOps ==
    {"cpf.isValid", "cnpj.isValid", "cep.isValid", "phone.isValid", "pis.isValid",
     "boleto.isValid", "processo.isValid", "email.isValid"}

\* C14: on an absent (undefined, null) or non-string argument no operation
\* throws: every isValid returns false, currency.parse returns 0 and capitalize
\* returns the empty string.
C14_NoThrowOnNonString ==
    (op # "none" /\ arg.type # "string") =>
        /\ op \in IsValidOps => ~ok
        /\ op = "currency.parse" => (~out.threw /\ out.value = Hundredth(0))
        /\ op = "capitalize" => (~out.threw /\ out.value = <<>>)

(***************************************************************************)
(* Claims about the check digits of CPF, CNPJ and PIS                      *)
(***************************************************************************)
\* the sum of f[1] ... f[n]
RECURSIVE SumTo(_, _)
SumTo(f, n) == IF n = 0 THEN 0 ELSE f[n] + SumTo(f, n - 1)

\* the sum of the first Len(w) digits of d, digit i weighted by w[i]
WeightedSum(d, w) == SumTo([i \in 1..Len(w) |-> parseInt(d[i]) * w[i]], Len(w))

\* the mod-11 mapping: 0 if the remainder is below 2, else 11 - remainder
Mod11Digit(sum) == IF sum % 11 < 2 THEN 0 ELSE 11 - (sum % 11)

\* s is the digit string d with, after each listed number of digits, either
\* nothing or the separator listed for it
SpelledWith(s, d, seps) ==
    \E choice \in [DOMAIN seps -> BOOLEAN] :
        s = Separated(d, 1, [i \in {j - 1 : j \in {k \in DOMAIN seps : choice[k]}} |->
                                 <<seps[i + 1]>>])

CpfSeparatorsAfter == (3 :> ".") @@ (6 :> ".") @@ (9 :> "-")

CnpjSeparatorsAfter == (2 :> ".") @@ (5 :> ".") @@ (8 :> "/") @@ (12 :> "-")

\* C16: cpf.isValid(s) is true exactly when s is ddd[.]ddd[.]ddd[-]dd, its 11
\* digits are not one repeated digit, digit 10 is the mod-11 check digit of
\* digits 1-9 under weights 10..2 and digit 11 that of digits 1-10 under weights
\* 11..2; cnpj.isValid(s) is true exactly when s is dd[.]ddd[.]ddd[/]dddd[-]dd,
\* its 14 digits are not one repeated digit, and digits 13 and 14 are the
\* mod-11 check digits under weights 5,4,3,2,9,8,7,6,5,4,3,2 and
\* 6,5,4,3,2,9,8,7,6,5,4,3,2.
C16_CpfCnpjIsValidExactly ==
    /\ op = "cpf.isValid" =>
           LET d == DigitsOf(arg)
           IN ok <=> /\ Len(d) = 11 /\ SpelledWith(arg, d, CpfSeparatorsAfter)
                     /\ ~IsRepeatedDigit(arg, 11)
                     /\ parseInt(d[10]) = Mod11Digit(WeightedSum(d, <<10, 9, 8, 7, 6, 5, 4, 3, 2>>))
                     /\ parseInt(d[11])
                            = Mod11Digit(WeightedSum(d, <<11, 10, 9, 8, 7, 6, 5, 4, 3, 2>>))
    /\ op = "cnpj.isValid" =>
           LET d == DigitsOf(arg)
           IN ok <=> /\ Len(d) = 14 /\ SpelledWith(arg, d, CnpjSeparatorsAfter)
                     /\ ~IsRepeatedDigit(arg, 14)
                     /\ parseInt(d[13])
                            = Mod11Digit(WeightedSum(d, <<5, 4, 3, 2, 9, 8, 7, 6, 5, 4, 3, 2>>))
                     /\ parseInt(d[14])
                            = Mod11Digit(WeightedSum(d, <<6, 5, 4, 3, 2, 9, 8, 7, 6, 5, 4, 3, 2>>))

\* a CPF whose first check digit is right and whose second is wrong was
\* rejected
C16_Witness ==
    /\ op = "cpf.isValid" /\ ~ok /\ Len(arg) = 11 /\ DigitsOf(arg) = arg
    /\ ~IsRepeatedDigit(arg, 11)
    /\ parseInt(arg[10]) = Mod11Digit(WeightedSum(arg, <<10, 9, 8, 7, 6, 5, 4, 3, 2>>))
    /\ parseInt(arg[11]) # Mod11Digit(WeightedSum(arg, <<11, 10, 9, 8, 7, 6, 5, 4, 3, 2>>))

\* C17: an 11-digit PIS that is not a reserved number is accepted by
\* pis.isValid exactly when its last digit is the mod-11 mapping of the sum of
\* its first ten digits under weights 3,2,9,8,7,6,5,4,3,2 (0 if the remainder
\* is below 2, else 11 - remainder).
C17_PisCheckDigitIsMod11Mapping ==
    (op = "pis.isValid" /\ Len(arg) = 11 /\ DigitsOf(arg) = arg /\ ~IsRepeatedDigit(arg, 11)) =>
        (ok <=> parseInt(arg[11]) = Mod11Digit(WeightedSum(arg, <<3, 2, 9, 8, 7, 6, 5, 4, 3, 2>>)))

\* a PIS whose weighted sum is a multiple of 11 was accepted with last digit 0
C17_Witness ==
    /\ op = "pis.isValid" /\ ok /\ Len(arg) = 11 /\ DigitsOf(arg) = arg
    /\ WeightedSum(arg, <<3, 2, 9, 8, 7, 6, 5, 4, 3, 2>>) % 11 = 0
    /\ arg[11] = "0"

\* C20: pis.isValid strips every non-digit character before it validates: for
\* every non-empty argument its verdict is its verdict on the digits of the
\* argument.
C20_PisVerdictIsOfDigits ==
    (op = "pis.isValid" /\ arg # <<>>) => (ok <=> pis_isValid(DigitsOf(arg)))

(***************************************************************************)
(* The validators of boleto and processo-juridico                          *)
(***************************************************************************)
\* the indexes of the four check digits of a digitable line
BoletoCheckIndexes == {PARTIALS[k].index : k \in 1..Len(PARTIALS)} \cup {32}

\* lines with right check digits, bare and formatted; with one check digit or
\* one other digit wrong; one digit short and one digit long; the empty string
BoletoArguments ==
    {<<>>}
    \cup CheckedBoleto
    \cup {boleto_format(d) : d \in CheckedBoleto}
    \cup {CorruptedAt(d, i) : d \in CheckedBoleto, i \in BoletoCheckIndexes \cup {0, 46}}
    \cup {SubSeq(d, 1, boleto_LENGTH - 1) : d \in CheckedBoleto}
    \cup {d \o <<"0">> : d \in CheckedBoleto}

\* the 18 digits of a processo: a ruler that ends in any two digits
ProcessoBases == {Ruler(16, 1) \o t : t \in Strings(Digit, 2)}

\* every base with every pair of check digits after its seventh digit; the
\* accepted ones formatted too; one digit short and one digit long
ProcessoArguments ==
    LET numbers == {SubSeq(b, 1, CHECK_DIGIT_START_POSITION) \o c
                    \o SubSeq(b, CHECK_DIGIT_START_POSITION + 1, Len(b)) :
                        b \in ProcessoBases, c \in Strings(Digit, CHECK_DIGIT_LENGTH)}
    IN {<<>>}
       \cup numbers
       \cup {processo_format(n) : n \in {x \in numbers : verifyDigit(x)}}
       \cup UNION {{SubSeq(n, 1, processo_LENGTH - 1), n \o <<"0">>} : n \in CheckedProcesso}

BoletoIsValid ==
    /\ op = "none"
    /\ \E a \in BoletoArguments : Call("boleto.isValid", a, NoOpt, <<>>, boleto_isValid(a))

ProcessoIsValid ==
    /\ op = "none"
    /\ \E a \in ProcessoArguments : Call("processo.isValid", a, NoOpt, <<>>, processo_isValid(a))

InitCheckDigits == Idle /\ CITIES_DATA = SortedCities

NextCheckDigits == BoletoIsValid \/ ProcessoIsValid \/ Return

SpecCheckDigits == InitCheckDigits /\ [][NextCheckDigits]_vars

(***************************************************************************)
(* Claims about the check digits of boleto and processo-juridico           *)
(***************************************************************************)
\* the digit of f that is k places from its right end (k = 0 for the last)
FromRight(f, k) == parseInt(f[Len(f) - k])

\* mod 10: weights 2,1,2,... from the right, a product above 9 folded to
\* 1 + product mod 10, check digit (10 - sum mod 10) mod 10
Mod10Digit(f) ==
    LET product(k) == FromRight(f, k) * (IF k % 2 = 0 THEN 2 ELSE 1)
        folded(k) == IF product(k) > 9 THEN 1 + (product(k) % 10) ELSE product(k)
        sum == SumTo([i \in 1..Len(f) |-> folded(i - 1)], Len(f))
    IN (10 - (sum % 10)) % 10

\* mod 11: weights 2..9 cycling from the right, check digit 1 when the
\* remainder is 0 or 1, else 11 - remainder
Mod11General(v) ==
    LET sum == SumTo([i \in 1..Len(v) |-> FromRight(v, i - 1) * (2 + ((i - 1) % 8))], Len(v))
    IN IF sum % 11 \in {0, 1} THEN 1 ELSE 11 - (sum % 11)

\* the digits of d at the indexes from..to (from 0, both included)
Indexes(d, from, to) == SubSeq(d, from + 1, to + 1)

RECURSIVE Mod97From(_, _, _)
Mod97From(s, i, acc) ==
    IF i > Len(s) THEN acc ELSE Mod97From(s, i + 1, (acc * 10 + parseInt(s[i])) % 97)

Mod97(s) == Mod97From(s, 1, 0)

\* the 18 digits of a 20-digit number that are not its check digits
NonCheckDigits(d) == SubSeq(d, 1, 7) \o SubSeq(d, 10, 20)

\* the number the check digits of a 20-digit number denote
CheckDigitsOf(d) == 10 * parseInt(d[8]) + parseInt(d[9])

\* the two remainders of verifyDigit give the remainder of the 18 non-check
\* digits followed by 00, and isValid accepts exactly the check digits 98 minus
\* that remainder
TwoStepRemainder ==
    LET d == DigitsOf(arg)
    IN /\ MOD_97_10_SUM - verifierOf(NonCheckDigits(d)) = Mod97(NonCheckDigits(d) \o <<"0", "0">>)
       /\ ok <=> CheckDigitsOf(d) = 98 - Mod97(NonCheckDigits(d) \o <<"0", "0">>)

FormatAgain(o, s) ==
    CASE o = "cpf.format" -> cpf_format(s, FALSE)
      [] o = "cnpj.format" -> cnpj_format(s, FALSE)
      [] o = "cep.format" -> cep_format(s)
      [] o = "boleto.format" -> boleto_format(s)
      [] o = "processo.format" -> processo_format(s)

\* C21: each formatter (CPF, CNPJ, CEP, boleto, judicial process), called
\* without the pad option, is idempotent: the format of its result is its
\* result, for every argument, also one with fewer digits than the fixed
\* length.
C21_FormatIsIdempotent ==
    (op \in FormatOps /\ ~opt.pad) => FormatAgain(op, out) = out

====
